---- MODULE Spec2Model ----
(***************************************************************************)
(* Model of the LinkedIn posting bot.                                      *)
(*                                                                         *)
(*   DevOpsLinkedinAutomation.py   startup check, pipeline functions and   *)
(*                                 the polling loop  (mode "scheduled")    *)
(*   DevOpsLinkedinAutomation3.py  startup checks, the same pipeline and   *)
(*                                 a single call under the __main__ guard  *)
(*                                 (mode "oneshot"); the guard also lets   *)
(*                                 the file be imported and its function   *)
(*                                 called repeatedly (mode "imported").    *)
(*                                                                         *)
(* Python values: None is the record None; a str is Str(s) with s a        *)
(* sequence of characters (or of longer tokens for paths, URLs and URNs).  *)
(* current_topic_index is 0-based as in the source; TLA+ sequences are     *)
(* 1-based, so TOPICS[current_topic_index] is written TopicAt(i).          *)
(***************************************************************************)
EXTENDS Integers, Sequences, FiniteSets

VARIABLES
    mode,                 \* which file runs, and how it was entered
    env,                  \* environment variables that are set and non-empty
    pc,                   \* position of the single thread of control
    exit_code,            \* process exit status, meaningful when pc = "exited"
    current_topic_index,  \* the module-level rotation cursor
    topic,                \* local of post_to_linkedin_with_image
    content,              \* local of post_to_linkedin_with_image
    diagram_path,         \* local of post_to_linkedin_with_image
    image_urn,            \* local of post_to_linkedin_with_image
    gen_response,         \* what the text backend did in generate_content
    reg_response,         \* `response` of the registerUpload request
    upload_url,           \* local of upload_image_to_linkedin
    asset_urn,            \* local of upload_image_to_linkedin
    upload_response,      \* `upload_response` of the binary upload request
    calls,                \* stage functions called in the current run, in order
    requests,             \* HTTP requests issued in the current run, in order
    log,                  \* lines logged by the current run / loop iteration
    pub,                  \* publisher progress of the current run
    runs,                 \* runs started since process start
    advances,             \* cursor advances since process start
    idx0,                 \* cursor value when the current run started
    adv0,                 \* advances when the current run started
    due,                  \* the configured daily time has passed, not yet served
    polls,                \* polling iterations executed
    last_exc              \* what the last polling iteration raised

vars == << mode, env, pc, exit_code, current_topic_index, topic, content,
           diagram_path, image_urn, gen_response, reg_response, upload_url,
           asset_urn, upload_response, calls, requests, log, pub, runs, advances, idx0, adv0,
           due, polls, last_exc >>

----------------------------------------------------------------------------
(* Bounds of the model *)

MaxText == 2

MaxRuns == 9

MaxPolls == 3

----------------------------------------------------------------------------
(* Module-level data *)

TOPICS == << "DevOps", "Kubernetes", "Docker", "Helm",
             "Terraform", "Azure", "EKS", "AKS" >>

\* The keys of the SEO_KEYWORDS dictionary, each with (a token for) its string.
SEO_KEYWORDS ==
    [t \in {"DevOps", "Kubernetes", "Docker", "Helm",
            "Terraform", "Azure", "EKS", "AKS"} |-> << "keywords:", t >>]

Credentials == {"OPENAI_API_KEY", "LINKEDIN_CLIENT_ID",
                "LINKEDIN_CLIENT_SECRET", "LINKEDIN_ACCESS_TOKEN"}

Modes == {"scheduled", "oneshot", "imported"}

\* Jobs registered with the schedule library.  The only registration,
\* schedule.every().day.at("18:00").do(post_to_linkedin_with_image), is
\* commented out, so the job list is empty.
jobs == {}

----------------------------------------------------------------------------
(* Python values *)

None == [type |-> "NoneType"]

Str(s) == [type |-> "str", val |-> s]

\* A test `x is None` in place of `not x`: the empty string passes.
Falsy_NoneOnly(v) == v = None

\* Python truthiness as used by `if not x:` on an Optional[str].
Falsy(v) == v = None \/ v.val = << >>

Err(m) == [level |-> "ERROR", msg |-> m]

Info(m) == [level |-> "INFO", msg |-> m]

TopicAt(i) == TOPICS[i + 1]

\* An increment of two in place of one.
NextIndex_SkipsOne(i) == (i + 2) % Len(TOPICS)

\* The increment without the modulo.
NextIndex_NoWrap(i) == i + 1

NextIndex(i) == (i + 1) % Len(TOPICS)

----------------------------------------------------------------------------
(* str.strip() *)

RECURSIVE lstrip(_)
lstrip(s) == IF s = << >> THEN s
             ELSE IF Head(s) = " " THEN lstrip(Tail(s)) ELSE s

RECURSIVE rstrip(_)
rstrip(s) == IF s = << >> THEN s
             ELSE IF s[Len(s)] = " " THEN rstrip(SubSeq(s, 1, Len(s) - 1)) ELSE s

strip(s) == rstrip(lstrip(s))

----------------------------------------------------------------------------
(* Inputs from the outside world *)

Chars == {" ", "a"}

RawTexts == UNION { [1..n -> Chars] : n \in 0..MaxText }

\* The text backend either raises or returns a completion.
BackendResponses ==
    {[raises |-> TRUE, text |-> << >>]} \cup
    {[raises |-> FALSE, text |-> r] : r \in RawTexts}

Urls == { << "https://upload/", x >> : x \in {"A", "B"} }

Urns == { << "urn:li:digitalmediaAsset:", x >> : x \in {"A", "B"} }

Fields == {"uploadUrl", "asset"}

\* The registerUpload response: a status (2xx or not) and a JSON body that
\* holds any subset of the two fields the code reads.
RegisterResponses ==
    { [ok |-> o, body |-> [f \in D |-> IF f = "uploadUrl" THEN u ELSE a]] :
        o \in BOOLEAN, D \in SUBSET Fields, u \in Urls, a \in Urns }

NoResponse == [ok |-> FALSE, body |-> << >>]

NoBackend == [raises |-> FALSE, text |-> << >>]

\* No binary upload request has been sent in this run.
NoUpload == [sent |-> FALSE, ok |-> FALSE]

----------------------------------------------------------------------------
(* The stage functions: what each returns and logs, given what the outside *)
(* world answered.  Each wraps its body in try / except Exception.         *)

\* generate_content without its try / except: a backend exception leaves
\* the function.
generate_content_Unguarded(t, resp) ==
    IF t \notin DOMAIN SEO_KEYWORDS \/ resp.raises
    THEN [raised |-> TRUE, value |-> None, logged |-> << >>]
    ELSE [raised |-> FALSE, value |-> Str(strip(resp.text)), logged |-> << >>]

\* generate_content: the prompt reads SEO_KEYWORDS[topic] (KeyError if the
\* key is missing), the backend is called once, the completion is stripped.
\* Any exception is logged and turned into None.
generate_content(t, resp) ==
    IF t \notin DOMAIN SEO_KEYWORDS \/ resp.raises
    THEN [raised |-> FALSE, value |-> None,
          logged |-> << Err("Failed to generate content") >>]
    ELSE [raised |-> FALSE, value |-> Str(strip(resp.text)), logged |-> << >>]

\* generate_diagram: the path is derived from the topic; a rendering
\* failure is logged and turned into None.
generate_diagram(t, render_ok) ==
    IF render_ok
    THEN [value |-> Str(<< "diagrams/", t, "_diagram.png" >>), logged |-> << >>]
    ELSE [value |-> None, logged |-> << Err("Failed to generate diagram") >>]

\* The same without raise_for_status(): only the body is looked at.
RegistrationOK_NoStatusCheck(resp) ==
    /\ "uploadUrl" \in DOMAIN resp.body
    /\ "asset" \in DOMAIN resp.body

\* upload_image_to_linkedin, first half: raise_for_status(), then the two
\* subscripts on response.json().  True when none of them raises.
RegistrationOK(resp) ==
    /\ resp.ok
    /\ "uploadUrl" \in DOMAIN resp.body
    /\ "asset" \in DOMAIN resp.body

\* The same without upload_response.raise_for_status(): a rejected upload
\* still yields the asset URN.
upload_result_NoStatusCheck(file_ok, resp_ok, urn) ==
    IF file_ok THEN urn ELSE None

\* upload_image_to_linkedin, second half: open() may raise, the upload
\* response may be non-2xx (raise_for_status raises); otherwise the asset
\* URN is returned.
upload_result(file_ok, resp_ok, urn) ==
    IF file_ok /\ resp_ok THEN urn ELSE None

register_request == [endpoint |-> "registerUpload"]

upload_request(url) == [endpoint |-> "upload", url |-> url]

\* The payload with its two arguments exchanged.
post_data_Swapped(c, urn) == [endpoint |-> "ugcPosts", text |-> urn, media |-> c]

\* post_to_linkedin: the ugcPosts payload.
post_data(c, urn) == [endpoint |-> "ugcPosts", text |-> c, media |-> urn]

----------------------------------------------------------------------------
(* Initial state: the interpreter is about to execute the file *)

Init ==
    /\ mode \in Modes
    /\ env \in SUBSET Credentials
    /\ pc = "startup"
    /\ exit_code = 0
    /\ current_topic_index = 0
    /\ topic = ""
    /\ content = None
    /\ diagram_path = None
    /\ image_urn = None
    /\ gen_response = NoBackend
    /\ reg_response = NoResponse
    /\ upload_url = None
    /\ asset_urn = None
    /\ upload_response = NoUpload
    /\ calls = << >>
    /\ requests = << >>
    /\ log = << >>
    /\ pub = "START"
    /\ runs = 0
    /\ advances = 0
    /\ idx0 = 0
    /\ adv0 = 0
    /\ due = FALSE
    /\ polls = 0
    /\ last_exc = "none"

runLocals == << topic, content, diagram_path, image_urn, gen_response,
                reg_response, upload_url, asset_urn, upload_response, calls,
                requests, pub,
                idx0, adv0 >>

loopVars == << due, polls, last_exc >>

----------------------------------------------------------------------------
(* Startup of DevOpsLinkedinAutomation.py: only OPENAI_API_KEY is checked *)

Startup ==
    /\ mode = "scheduled"
    /\ pc = "startup"
    /\ IF "OPENAI_API_KEY" \notin env
       THEN /\ log' = << Err("OpenAI API key not found in environment variables.") >>
            /\ pc' = "exited"
            /\ exit_code' = 1
       ELSE /\ log' = << Info("LinkedIn poster started. Waiting for scheduled posts...") >>
            /\ pc' = "polling"
            /\ exit_code' = exit_code
    /\ UNCHANGED << mode, env, current_topic_index, runs, advances >>
    /\ UNCHANGED runLocals
    /\ UNCHANGED loopVars

(* Startup of DevOpsLinkedinAutomation3.py: the local pipeline is built,   *)
(* then the three LinkedIn credentials are checked.                        *)

Startup3 ==
    /\ mode \in {"oneshot", "imported"}
    /\ pc = "startup"
    /\ \E pipeline_ok \in BOOLEAN :
         IF ~pipeline_ok
         THEN /\ log' = << Info("Script started."),
                           Err("Failed to initialize Hugging Face pipeline") >>
              /\ pc' = "exited"
              /\ exit_code' = 1
         ELSE IF ~({"LINKEDIN_CLIENT_ID", "LINKEDIN_CLIENT_SECRET",
                    "LINKEDIN_ACCESS_TOKEN"} \subseteq env)
         THEN /\ log' = << Info("Script started."),
                           Err("LinkedIn credentials not found in environment variables.") >>
              /\ pc' = "exited"
              /\ exit_code' = 1
         ELSE /\ log' = << Info("Script started.") >>
              /\ pc' = IF mode = "oneshot" THEN "main" ELSE "idle"
              /\ exit_code' = exit_code
    /\ UNCHANGED << mode, env, current_topic_index, runs, advances >>
    /\ UNCHANGED runLocals
    /\ UNCHANGED loopVars

----------------------------------------------------------------------------
(* post_to_linkedin_with_image, step by step *)

\* Entry: the topic is read at the cursor and the first line is logged.
EnterRun ==
    /\ topic' = TopicAt(current_topic_index)
    /\ log' = << Info("Generating content and diagram for topic") >>
    /\ content' = None
    /\ diagram_path' = None
    /\ image_urn' = None
    /\ gen_response' = NoBackend
    /\ reg_response' = NoResponse
    /\ upload_url' = None
    /\ asset_urn' = None
    /\ upload_response' = NoUpload
    /\ calls' = << >>
    /\ requests' = << >>
    /\ pub' = "START"
    /\ runs' = runs + 1
    /\ idx0' = current_topic_index
    /\ adv0' = advances
    /\ pc' = "content"
    /\ UNCHANGED << mode, env, exit_code, current_topic_index, advances >>

\* The call under the __main__ guard, or a call by the importing program.
Call ==
    /\ pc \in {"main", "idle"}
    /\ runs < MaxRuns
    /\ EnterRun
    /\ UNCHANGED loopVars

\* content = generate_content(topic); if not content: log, return
GenerateContent ==
    /\ pc = "content"
    /\ \E resp \in BackendResponses :
         LET r == generate_content(topic, resp) IN
         /\ gen_response' = resp
         /\ calls' = Append(calls, "generate_content")
         /\ content' = r.value
         /\ IF r.raised
            THEN /\ pc' = "propagated"
                 /\ log' = log
            ELSE IF Falsy(r.value)
            THEN /\ pc' = "returned"
                 /\ log' = log \o r.logged \o
                           << Err("No content generated. Skipping post.") >>
            ELSE /\ pc' = "diagram"
                 /\ log' = log \o r.logged
    /\ UNCHANGED << mode, env, exit_code, current_topic_index, runs, advances,
                    topic, diagram_path, image_urn, reg_response, upload_url,
                    asset_urn, upload_response, requests, pub, idx0, adv0 >>
    /\ UNCHANGED loopVars

\* diagram_path = generate_diagram(topic); if not diagram_path: log, return
GenerateDiagram ==
    /\ pc = "diagram"
    /\ \E render_ok \in BOOLEAN :
         LET r == generate_diagram(topic, render_ok) IN
         /\ calls' = Append(calls, "generate_diagram")
         /\ diagram_path' = r.value
         /\ IF Falsy(r.value)
            THEN /\ pc' = "returned"
                 /\ log' = log \o r.logged \o
                           << Err("No diagram generated. Skipping post.") >>
            ELSE /\ pc' = "register"
                 /\ log' = log \o r.logged \o
                           << Info("Generated Content"), Info("Diagram saved") >>
    /\ UNCHANGED << mode, env, exit_code, current_topic_index, runs, advances,
                    topic, content, image_urn, gen_response, reg_response,
                    upload_url, asset_urn, upload_response, requests, pub,
                    idx0, adv0 >>
    /\ UNCHANGED loopVars

\* upload_image_to_linkedin, first request: POST /assets?action=registerUpload.
\* On any exception the function logs and returns None, and the caller logs
\* and returns.
RegisterUpload ==
    /\ pc = "register"
    /\ \E resp \in RegisterResponses :
         /\ reg_response' = resp
         /\ calls' = Append(calls, "upload_image_to_linkedin")
         /\ requests' = Append(requests, register_request)
         /\ IF RegistrationOK(resp)
            THEN /\ upload_url' = Str(resp.body["uploadUrl"])
                 /\ asset_urn' = Str(resp.body["asset"])
                 /\ pub' = "REGISTERED"
                 /\ pc' = "upload"
                 /\ log' = log
            ELSE /\ upload_url' = upload_url
                 /\ asset_urn' = asset_urn
                 /\ pub' = "FAILED"
                 /\ pc' = "returned"
                 /\ log' = log \o << Err("Failed to upload image to LinkedIn"),
                                     Err("Failed to upload image. Skipping post.") >>
    /\ UNCHANGED << mode, env, exit_code, current_topic_index, runs, advances,
                    topic, content, diagram_path, image_urn, gen_response,
                    upload_response, idx0, adv0 >>
    /\ UNCHANGED loopVars

\* upload_image_to_linkedin, second half: open(image_path, "rb"), POST the
\* file to upload_url, raise_for_status(), return asset_urn; then the
\* caller's `if not image_urn`.
UploadBinary ==
    /\ pc = "upload"
    /\ \E file_ok \in BOOLEAN, resp_ok \in BOOLEAN :
         LET result == upload_result(file_ok, resp_ok, asset_urn) IN
         /\ upload_response' = [sent |-> file_ok, ok |-> file_ok /\ resp_ok]
         /\ requests' = IF file_ok
                        THEN Append(requests, upload_request(upload_url))
                        ELSE requests
         /\ image_urn' = result
         /\ IF Falsy(result)
            THEN /\ pub' = "FAILED"
                 /\ pc' = "returned"
                 /\ log' = log \o
                      (IF result = None
                       THEN << Err("Failed to upload image to LinkedIn") >>
                       ELSE << >>) \o
                      << Err("Failed to upload image. Skipping post.") >>
            ELSE /\ pub' = "UPLOADED"
                 /\ pc' = "post"
                 /\ log' = log
    /\ UNCHANGED << mode, env, exit_code, current_topic_index, runs, advances,
                    topic, content, diagram_path, gen_response, reg_response,
                    upload_url, asset_urn, calls, idx0, adv0 >>
    /\ UNCHANGED loopVars

\* post_to_linkedin(content, image_urn): POST /ugcPosts; success or failure
\* is logged, nothing is returned.
CreatePost ==
    /\ pc = "post"
    /\ \E resp_ok \in BOOLEAN :
         /\ calls' = Append(calls, "post_to_linkedin")
         /\ requests' = Append(requests, post_data(content, image_urn))
         /\ pub' = IF resp_ok THEN "POSTED" ELSE "FAILED"
         /\ log' = log \o << IF resp_ok
                             THEN Info("Posted to LinkedIn successfully!")
                             ELSE Err("Failed to post to LinkedIn") >>
         /\ pc' = "advance"
    /\ UNCHANGED << mode, env, exit_code, current_topic_index, runs, advances,
                    topic, content, diagram_path, image_urn, gen_response,
                    reg_response, upload_url, asset_urn, upload_response,
                    idx0, adv0 >>
    /\ UNCHANGED loopVars

\* current_topic_index = (current_topic_index + 1) % len(TOPICS), and the
\* "Next topic" line.
Advance ==
    /\ pc = "advance"
    /\ current_topic_index' = NextIndex(current_topic_index)
    /\ advances' = advances + 1
    /\ log' = log \o << Info("Next topic") >>
    /\ pc' = "returned"
    /\ UNCHANGED << mode, env, exit_code, runs >>
    /\ UNCHANGED runLocals
    /\ UNCHANGED loopVars

\* The function returns to whoever called it: the end of the script (exit
\* status 0), the importing program, or the polling loop.
Return ==
    /\ pc = "returned"
    /\ pc' = CASE mode = "oneshot" -> "exited"
               [] mode = "imported" -> "idle"
               [] OTHER -> "polling"
    /\ exit_code' = 0
    /\ UNCHANGED << mode, env, current_topic_index, runs, advances, log >>
    /\ UNCHANGED runLocals
    /\ UNCHANGED loopVars

----------------------------------------------------------------------------
(* The polling loop of DevOpsLinkedinAutomation.py *)

Exceptions == {"none", "Exception", "KeyboardInterrupt"}

\* The loop without its `except Exception` clause: any exception ends it.
loop_after_Uncaught(exc) == IF exc = "none" THEN "polling" ELSE "exited"

\* The two except clauses: KeyboardInterrupt breaks out of the loop (the
\* script then ends), any other Exception is logged and the loop goes on.
loop_after(exc) == IF exc = "KeyboardInterrupt" THEN "exited" ELSE "polling"

loop_logged(exc) ==
    CASE exc = "KeyboardInterrupt" -> << Info("Script stopped by user.") >>
      [] exc = "Exception" -> << Err("Unexpected error in scheduler") >>
      [] OTHER -> << >>

\* One iteration: schedule.run_pending() runs the registered jobs that are
\* due, then time.sleep(1), during which the configured time may arrive.
Poll ==
    /\ mode = "scheduled"
    /\ pc = "polling"
    /\ polls < MaxPolls
    /\ polls' = polls + 1
    /\ IF jobs # {} /\ due
       THEN /\ EnterRun
            /\ due' = FALSE
            /\ last_exc' = "none"
       ELSE /\ \E exc \in Exceptions, arrives \in BOOLEAN :
                 /\ last_exc' = exc
                 /\ due' = (due \/ arrives)
                 /\ pc' = loop_after(exc)
                 /\ log' = loop_logged(exc)
            /\ exit_code' = 0
            /\ UNCHANGED << mode, env, current_topic_index, runs, advances >>
            /\ UNCHANGED runLocals

----------------------------------------------------------------------------

Next ==
    \/ Startup
    \/ Startup3
    \/ Call
    \/ GenerateContent
    \/ GenerateDiagram
    \/ RegisterUpload
    \/ UploadBinary
    \/ CreatePost
    \/ Advance
    \/ Return
    \/ Poll

Spec == Init /\ [][Next]_vars

----------------------------------------------------------------------------
(* Vocabulary of the properties *)

StageOrder == << "generate_content", "generate_diagram",
                 "upload_image_to_linkedin", "post_to_linkedin" >>

\* An empty stage result: None or the empty string.
IsEmptyResult(v) == v = None \/ v = Str(<< >>)

Logged(line) == \E i \in 1..Len(log) : log[i] = line

RequestsTo(e) == SelectSeq(requests, LAMBDA r : r.endpoint = e)

\* Inside post_to_linkedin_with_image, between its entry and its return.
InRun == pc \in {"content", "diagram", "register", "upload", "post", "advance"}

\* The registerUpload request of this run was issued and its response is
\* non-2xx or lacks one of the two fields.
RegistrationFailed ==
    /\ requests # << >>
    /\ \/ ~reg_response.ok
       \/ "uploadUrl" \notin DOMAIN reg_response.body
       \/ "asset" \notin DOMAIN reg_response.body

\* The credentials the running file uses: the OpenAI key only in
\* DevOpsLinkedinAutomation.py, the LinkedIn triple in both.
RequiredCredentials ==
    IF mode = "scheduled" THEN Credentials
    ELSE Credentials \ {"OPENAI_API_KEY"}

----------------------------------------------------------------------------
(* C1: every run, whatever stage fails or succeeds, has advanced the       *)
(* cursor exactly once, by one position modulo the topic count, by the     *)
(* time it returns.                                                        *)
C1_CursorAdvancedOncePerRun ==
    pc = "returned" =>
        /\ current_topic_index = (idx0 + 1) % Len(TOPICS)
        /\ advances = adv0 + 1

(* C2: the stages are called in the order generate_content,               *)
(* generate_diagram, upload_image_to_linkedin, post_to_linkedin, each only *)
(* after every earlier one returned a non-empty result; a run whose        *)
(* content is None or empty calls nothing further, and a run whose diagram *)
(* is None calls neither publisher function and issues no request.         *)
C2_StagesInOrderAndShortCircuit ==
    /\ Len(calls) <= Len(StageOrder)
    /\ calls = SubSeq(StageOrder, 1, Len(calls))
    /\ Len(calls) >= 2 => ~IsEmptyResult(content)
    /\ Len(calls) >= 3 => ~IsEmptyResult(diagram_path)
    /\ Len(calls) >= 4 => ~IsEmptyResult(image_urn)
    /\ requests # << >> => Len(calls) >= 3
    /\ RequestsTo("ugcPosts") # << >> => Len(calls) = 4
    /\ (~InRun /\ runs > 0 /\ IsEmptyResult(content)) =>
           (calls = << "generate_content" >> /\ requests = << >>)
    /\ (~InRun /\ runs > 0 /\ ~IsEmptyResult(content) /\ diagram_path = None) =>
           (calls = << "generate_content", "generate_diagram" >> /\ requests = << >>)

\* A run returned after generate_content gave the empty string.
C2_Witness ==
    /\ pc = "returned"
    /\ content = Str(<< >>)
    /\ calls = << "generate_content" >>
    /\ requests = << >>

(* C3: when the registerUpload response is non-2xx or lacks uploadUrl or   *)
(* asset, the run issues no request to the upload URL and none to          *)
(* /ugcPosts, logs the failure as an error, and ends failed.               *)
C3_RegistrationFailureShortCircuits ==
    RegistrationFailed =>
        /\ requests = << register_request >>
        /\ RequestsTo("upload") = << >>
        /\ RequestsTo("ugcPosts") = << >>
        /\ Logged(Err("Failed to upload image to LinkedIn"))
        /\ Logged(Err("Failed to upload image. Skipping post."))
        /\ image_urn = None
        /\ pub = "FAILED"
        /\ ~InRun

\* A 2xx registration response without uploadUrl, and the run has returned.
C3_Witness ==
    /\ pc = "returned"
    /\ requests # << >>
    /\ reg_response.ok
    /\ "uploadUrl" \notin DOMAIN reg_response.body
    /\ "asset" \in DOMAIN reg_response.body

(* C4: after N advances from cursor position i the next run selects       *)
(* TOPICS[(i + N) mod |TOPICS|]; the 8 topics are distinct, so the cursor  *)
(* is back at its starting topic after exactly 8 advances and at a         *)
(* different topic after each smaller number.  The cursor starts at 0, so  *)
(* position i is the state after i advances.                               *)
C4_RotationFollowsAdvances ==
    /\ Len(TOPICS) = 8
    /\ Cardinality({TOPICS[i] : i \in 1..Len(TOPICS)}) = Len(TOPICS)
    /\ current_topic_index = advances % Len(TOPICS)
    /\ idx0 = adv0 % Len(TOPICS)
    /\ InRun => topic = TOPICS[(adv0 % Len(TOPICS)) + 1]
    /\ (InRun /\ pc # "advance") => advances = adv0
    /\ current_topic_index = (idx0 + (advances - adv0)) % Len(TOPICS)

\* The ninth successful run in a row starts: the cursor has wrapped to the
\* first topic.
C4_Witness ==
    /\ pc = "content"
    /\ advances = Len(TOPICS)
    /\ current_topic_index = 0
    /\ topic = "DevOps"

(* C5: a run in which content, diagram, registration, binary upload and    *)
(* post creation all succeed issues exactly one /ugcPosts request, whose   *)
(* text is the text generate_content returned in that run and whose media  *)
(* is the asset of that run's registration response, and ends with the     *)
(* cursor one position further (0 becomes 1).                              *)
C5_SuccessfulRunPostsOnce ==
    (pc = "returned" /\ pub = "POSTED") =>
        /\ Len(RequestsTo("ugcPosts")) = 1
        /\ RequestsTo("ugcPosts")[1].text = content
        /\ content = Str(strip(gen_response.text))
        /\ ~IsEmptyResult(content)
        /\ RequestsTo("ugcPosts")[1].media = Str(reg_response.body["asset"])
        /\ requests = << register_request,
                         upload_request(Str(reg_response.body["uploadUrl"])),
                         RequestsTo("ugcPosts")[1] >>
        /\ current_topic_index = (idx0 + 1) % Len(TOPICS)
        /\ idx0 = 0 => current_topic_index = 1

\* The first run of a process succeeded at every stage.
C5_Witness ==
    /\ pc = "returned"
    /\ pub = "POSTED"
    /\ idx0 = 0
    /\ current_topic_index = 1
    /\ Logged(Info("Posted to LinkedIn successfully!"))

(* C6: generate_content never lets an exception reach its caller: when the *)
(* backend raises it logs the error and returns None, it is called once in *)
(* the run, and the run is aborted with no further stage and no request.   *)
C6_GenerateContentSwallowsBackendErrors ==
    /\ pc # "propagated"
    /\ gen_response.raises =>
        /\ content = None
        /\ Logged(Err("Failed to generate content"))
        /\ Logged(Err("No content generated. Skipping post."))
        /\ calls = << "generate_content" >>
        /\ requests = << >>
        /\ ~InRun
        /\ advances = adv0

\* The backend raised and the run has returned.
C6_Witness ==
    /\ pc = "returned"
    /\ gen_response.raises
    /\ content = None

(* C7: when a required credential is missing from the environment, the    *)
(* process logs a diagnostic and exits with a non-zero status before any   *)
(* run starts and before the polling loop is entered.                      *)
C7_MissingCredentialAbortsStartup ==
    (~(RequiredCredentials \subseteq env) /\ pc # "startup") =>
        /\ pc = "exited"
        /\ exit_code = 1
        /\ \E i \in 1..Len(log) : log[i].level = "ERROR"
        /\ runs = 0
        /\ polls = 0

(* C8: in the polling loop, an iteration that finds the configured daily   *)
(* time due (and is not interrupted) invokes post_to_linkedin_with_image.  *)
C8_DueTimeTriggersRun ==
    [][(mode = "scheduled" /\ pc = "polling" /\ due
            /\ polls' = polls + 1 /\ last_exc' = "none")
        => runs' = runs + 1]_vars

(* C9: an exception raised in a polling iteration is caught and logged and *)
(* the loop goes on to its next iteration; the loop ends only on           *)
(* KeyboardInterrupt.                                                      *)
C9_LoopSurvivesExceptions ==
    (mode = "scheduled" /\ polls > 0) =>
        /\ pc = "exited" <=> last_exc = "KeyboardInterrupt"
        /\ last_exc = "KeyboardInterrupt" =>
               (exit_code = 0 /\ Logged(Info("Script stopped by user.")))
        /\ last_exc = "Exception" =>
               (pc = "polling" /\ Logged(Err("Unexpected error in scheduler")))
        /\ last_exc = "none" => pc = "polling"

\* An iteration raised an Exception and the loop is at its next iteration.
C9_Witness ==
    /\ mode = "scheduled"
    /\ pc = "polling"
    /\ polls > 0
    /\ polls < MaxPolls
    /\ last_exc = "Exception"

(* C10: the cursor is 0 at process start and always within                 *)
(* 0 .. |TOPICS| - 1, so TOPICS[current_topic_index] and                   *)
(* SEO_KEYWORDS[topic] are defined whenever a run reads them.              *)
C10_CursorInRange ==
    /\ current_topic_index \in 0..(Len(TOPICS) - 1)
    /\ pc = "startup" => current_topic_index = 0
    /\ TopicAt(current_topic_index) \in DOMAIN SEO_KEYWORDS
    /\ InRun => (topic = TopicAt(idx0) /\ topic \in DOMAIN SEO_KEYWORDS)

\* A run returned after the advance that wraps from the last topic to the
\* first.
C10_Witness ==
    /\ pc = "returned"
    /\ idx0 = Len(TOPICS) - 1
    /\ current_topic_index = 0
    /\ advances = adv0 + 1

(* C11: within one run the publisher's requests follow                     *)
(* START -> REGISTERED -> UPLOADED -> POSTED: registration, binary upload  *)
(* and post creation are each issued at most once and in that order; the   *)
(* binary upload only after a successful registration and to the upload    *)
(* URL it returned; the post only after a successful binary upload and     *)
(* with the asset URN of the same run's registration, so a failed binary   *)
(* upload is never followed by a post.                                     *)
C11_PublisherSequence ==
    /\ Len(RequestsTo("registerUpload")) <= 1
    /\ Len(RequestsTo("upload")) <= 1
    /\ Len(RequestsTo("ugcPosts")) <= 1
    /\ requests = RequestsTo("registerUpload") \o RequestsTo("upload")
                      \o RequestsTo("ugcPosts")
    /\ RequestsTo("upload") # << >> =>
           /\ RequestsTo("registerUpload") # << >>
           /\ reg_response.ok
           /\ Fields \subseteq DOMAIN reg_response.body
           /\ RequestsTo("upload")[1].url = Str(reg_response.body["uploadUrl"])
           /\ upload_response.sent
    /\ RequestsTo("ugcPosts") # << >> =>
           /\ RequestsTo("upload") # << >>
           /\ upload_response.ok
           /\ RequestsTo("ugcPosts")[1].media = Str(reg_response.body["asset"])
    /\ (upload_response.sent /\ ~upload_response.ok) =>
           /\ RequestsTo("ugcPosts") = << >>
           /\ "post_to_linkedin" \notin {calls[i] : i \in 1..Len(calls)}
           /\ pub = "FAILED"
           /\ ~InRun
    /\ pub = "START" => requests = << >>
    /\ pub = "REGISTERED" => (Len(requests) = 1 /\ pc = "upload")
    /\ pub = "UPLOADED" => (Len(requests) = 2 /\ pc = "post")
    /\ pub = "POSTED" => Len(requests) = 3

\* The binary upload was sent after a successful registration and was
\* rejected; the run has returned.
C11_Witness ==
    /\ pc = "returned"
    /\ reg_response.ok
    /\ RequestsTo("upload") # << >>
    /\ upload_response.sent
    /\ ~upload_response.ok

====
